---- MODULE Spec2Model ----
(***************************************************************************)
(* Market-Intelligence-Platform: the three utility scripts                 *)
(*   convert-report-to-doc.py   REPORT.md -> REPORT.docx                   *)
(*   scripts/yahoo_finance.py   market-data adapter, JSON on stdout        *)
(*   scripts/google_trends.py   search-trends adapter, JSON on stdout      *)
(* One invocation of one script is one behaviour.  Text is a sequence of   *)
(* one-character strings, so that split / strip / replace are computed the *)
(* way Python computes them.                                               *)
(***************************************************************************)
EXTENDS Integers, Sequences, FiniteSets, TLC

VARIABLES
    script,       \* which script this invocation runs
    pc,           \* position of the invocation in its script
    installed,    \* converter: the supporting libraries that are installed
    inputExists,  \* converter: REPORT.md is present in the working directory
    md_content,   \* converter: text read from REPORT.md
    sections,     \* converter: md_content.split('\n## ')
    i,            \* converter: index of the next section (0-based, as in the code)
    doc,          \* converter: nodes of the python-docx Document, in order
    outFile,      \* converter: what the run has done to REPORT.docx
    argv,         \* adapters: sys.argv[1:], one string per argument
    result,       \* adapters: the dict the command function returned
    work,         \* adapters: items the running command still has to look up
    found,        \* adapters: number of entries collected by the running loop
    limit,        \* yahoo_finance search: the parsed result limit
    raised,       \* adapters: a provider call of this invocation raised
    payloadBuilt, \* google_trends: build_payload was called on the shared client
    requests,     \* google_trends: provider calls made, in order
    stdout,       \* lines printed to standard output
    exitStatus,   \* process exit status, -1 while running
    unhandled     \* the process ended on an exception nothing caught

vars == <<script, pc, installed, inputExists, md_content, sections, i, doc,
          outFile, argv, result, work, found, limit, raised, payloadBuilt,
          requests, stdout, exitStatus, unhandled>>

convVars == <<installed, inputExists, md_content, sections, i, doc, outFile>>
adapterVars ==
    <<argv, result, work, found, limit, raised, payloadBuilt, requests>>

(***************************************************************************)
(* Bounds of the model                                                     *)
(***************************************************************************)
MaxLines == 4   \* lines of a line-built REPORT.md
MaxBody == 6    \* characters of a character-built section / subsection body
MaxTitle == 5   \* characters of a character-built title chunk

(***************************************************************************)
(* Python str operations on character sequences                            *)
(***************************************************************************)
NL == "\n"
SP == " "
HASH == "#"
DASH == "-"

\* str.strip() with no argument removes whitespace; the model's texts hold
\* two whitespace characters, the space and the newline.
IsSpace(c) == c \in {SP, NL}

RECURSIVE LStrip(_)
LStrip(s) ==
    IF s # <<>> /\ IsSpace(Head(s)) THEN LStrip(Tail(s)) ELSE s

RECURSIVE RStrip(_)
RStrip(s) ==
    IF s # <<>> /\ IsSpace(s[Len(s)]) THEN RStrip(SubSeq(s, 1, Len(s) - 1)) ELSE s

Strip(s) == RStrip(LStrip(s))

StartsWith(s, p) == Len(s) >= Len(p) /\ SubSeq(s, 1, Len(p)) = p

\* str.find: the least index (1-based) at which d occurs in s, 0 when none
Find(s, d) ==
    LET hits == {k \in 1..(Len(s) - Len(d) + 1) : SubSeq(s, k, k + Len(d) - 1) = d}
    IN  IF hits = {} THEN 0 ELSE CHOOSE k \in hits : \A m \in hits : k <= m

\* str.split(d) with a non-empty separator: leftmost non-overlapping matches
RECURSIVE Split(_, _)
Split(s, d) ==
    LET k == Find(s, d)
    IN  IF k = 0 THEN <<s>>
        ELSE <<SubSeq(s, 1, k - 1)>> \o Split(SubSeq(s, k + Len(d), Len(s)), d)

\* str.replace(old, new): every leftmost non-overlapping match is replaced
RECURSIVE Replace(_, _, _)
Replace(s, old, new) ==
    LET k == Find(s, old)
    IN  IF k = 0 THEN s
        ELSE SubSeq(s, 1, k - 1) \o new
             \o Replace(SubSeq(s, k + Len(old), Len(s)), old, new)

\* sep.join(parts)
RECURSIVE Join(_, _)
Join(parts, sep) ==
    IF parts = <<>> THEN <<>>
    ELSE IF Len(parts) = 1 THEN parts[1]
    ELSE parts[1] \o sep \o Join(Tail(parts), sep)

SeqsUpTo(S, n) == UNION {[1..k -> S] : k \in 0..n}

SectionDelim == <<NL, HASH, HASH, SP>>
SubsectionDelim == <<NL, HASH, HASH, HASH, SP>>
BlankLine == <<NL, NL>>
BulletMark == <<DASH, SP>>
BulletDelim == <<NL, DASH, SP>>
TitleMark == <<HASH, SP>>
ThreeHashes == <<HASH, HASH, HASH>>

(***************************************************************************)
(* Document nodes, as python-docx appends them                             *)
(***************************************************************************)
Heading(text, level) ==
    [node |-> "heading", level |-> level, style |-> "Heading", text |-> text]
Paragraph(text) ==
    [node |-> "paragraph", level |-> -1, style |-> "Normal", text |-> text]
ListItem(text) ==
    [node |-> "paragraph", level |-> -1, style |-> "List Bullet", text |-> text]

(***************************************************************************)
(* convert-report-to-doc.py: the parse, as main() computes it              *)
(***************************************************************************)
Libs == {"docx", "markdown", "html2text"}

\* title = sections[0].strip().replace('# ', '')
TitleOf(chunk) == Replace(Strip(chunk), TitleMark, <<>>)

\* section_lines = section.strip().split('\n')
SectionLines(section) == Split(Strip(section), <<NL>>)

SectionTitleWhole(section) == Strip(section)

\* section_title = section_lines[0]
SectionTitle(section) == SectionLines(section)[1]

\* section_content = '\n'.join(section_lines[1:]).strip()
SectionContent(section) == Strip(Join(Tail(SectionLines(section)), <<NL>>))

\* subsections = section_content.split('\n### ')
Subsections(section) == Split(SectionContent(section), SubsectionDelim)

KeepEveryPara(para) == TRUE

\* if para.strip():
KeepPara(para) == Strip(para) # <<>>

\* for para in paragraphs: if para.strip(): doc.add_paragraph(para.strip())
RECURSIVE PlainParagraphs(_)
PlainParagraphs(paras) ==
    IF paras = <<>> THEN <<>>
    ELSE (IF KeepPara(Head(paras)) THEN <<Paragraph(Strip(Head(paras)))>> ELSE <<>>)
         \o PlainParagraphs(Tail(paras))

\* the text before the first subsection, emitted unless it starts with '###'
DirectNodes(first) ==
    IF StartsWith(first, ThreeHashes) THEN <<>>
    ELSE PlainParagraphs(Split(Strip(first), BlankLine))

\* for list_item in para.strip().split('\n- '): the body of that loop
RECURSIVE ListItems(_)
ListItems(items) ==
    IF items = <<>> THEN <<>>
    ELSE LET list_item == Head(items)
             cut == IF StartsWith(list_item, BulletMark)
                    THEN SubSeq(list_item, 3, Len(list_item))
                    ELSE list_item
         IN  (IF Strip(list_item) # <<>> THEN <<ListItem(Strip(cut))>> ELSE <<>>)
             \o ListItems(Tail(items))

BulletItems(para) == ListItems(Split(Strip(para), BulletDelim))

\* one paragraph of a subsection: a list or a plain paragraph
BlockNodes(para) ==
    IF ~KeepPara(para) THEN <<>>
    ELSE IF StartsWith(Strip(para), BulletMark) THEN BulletItems(para)
    ELSE <<Paragraph(Strip(para))>>

RECURSIVE BlocksNodes(_)
BlocksNodes(paras) ==
    IF paras = <<>> THEN <<>> ELSE BlockNodes(Head(paras)) \o BlocksNodes(Tail(paras))

SubsectionLines(subsection) == Split(Strip(subsection), <<NL>>)
SubsectionTitle(subsection) == SubsectionLines(subsection)[1]
SubsectionContent(subsection) ==
    Strip(Join(Tail(SubsectionLines(subsection)), <<NL>>))

\* one iteration of the subsection loop
SubsectionNodes(subsection) ==
    <<Heading(SubsectionTitle(subsection), 2)>>
    \o (IF SubsectionContent(subsection) # <<>>
        THEN BlocksNodes(Split(SubsectionContent(subsection), BlankLine))
        ELSE <<>>)

RECURSIVE SubsectionsNodes(_)
SubsectionsNodes(subs) ==
    IF subs = <<>> THEN <<>>
    ELSE SubsectionNodes(Head(subs)) \o SubsectionsNodes(Tail(subs))

\* one iteration of the section loop
SectionNodes(section) ==
    <<Heading(SectionTitle(section), 1)>>
    \o DirectNodes(Subsections(section)[1])
    \o SubsectionsNodes(Tail(Subsections(section)))

(***************************************************************************)
(* The texts REPORT.md may hold                                            *)
(***************************************************************************)
Lines ==
    { <<>>, <<"a">>, <<HASH, SP, "a">>, <<HASH, HASH, SP, "a">>,
      <<HASH, HASH, SP, "b">>, <<HASH, HASH, SP>>, <<HASH, HASH, HASH, SP, "a">>,
      <<DASH, SP, "a">> }

LineInputs == {Join(ls, <<NL>>) : ls \in SeqsUpTo(Lines, MaxLines)}

SectionPrefix == <<NL, HASH, HASH, SP, "s", NL>>
SubsectionPrefix ==
    <<NL, HASH, HASH, SP, "s", NL, "t", NL, HASH, HASH, HASH, SP, "u", NL>>

BodyInputs ==
    {p \o b : p \in {SectionPrefix, SubsectionPrefix},
              b \in SeqsUpTo({"a", NL, SP, DASH}, MaxBody)}

TitleInputs ==
    {t \o <<NL, HASH, HASH, SP, "s">> : t \in SeqsUpTo({"a", HASH, SP}, MaxTitle)}

Inputs == LineInputs \cup BodyInputs \cup TitleInputs

(***************************************************************************)
(* Output lines                                                            *)
(***************************************************************************)
TextLine(t) == [status |-> "text", message |-> t]
JsonLine(r) == [status |-> r.status, message |-> r.message]

NoResult == [status |-> "none", message |-> ""]

Exit(code) ==
    /\ pc' = "exited"
    /\ exitStatus' = code

(***************************************************************************)
(* convert-report-to-doc.py: the run                                       *)
(***************************************************************************)
\* lines 8-12: the module-level imports; a missing library raises ImportError
\* before main() is entered, and nothing catches it
ImportModules ==
    /\ script = "convert" /\ pc = "import"
    /\ IF Libs \subseteq installed
       THEN /\ pc' = "main"
            /\ UNCHANGED <<exitStatus, unhandled>>
       ELSE /\ Exit(1)
            /\ unhandled' = TRUE
    /\ UNCHANGED <<script, convVars, adapterVars, stdout>>

\* lines 15-20: try: import docx / except ImportError: print, exit(1)
CheckDocx ==
    /\ script = "convert" /\ pc = "main"
    /\ IF "docx" \in installed
       THEN /\ pc' = "check_input"
            /\ UNCHANGED <<stdout, exitStatus>>
       ELSE /\ stdout' = Append(stdout, TextLine("install python-docx"))
            /\ Exit(1)
    /\ UNCHANGED <<script, convVars, adapterVars, unhandled>>

\* lines 23-25
CheckInput ==
    /\ script = "convert" /\ pc = "check_input"
    /\ IF inputExists
       THEN /\ pc' = "read"
            /\ UNCHANGED <<stdout, exitStatus>>
       ELSE /\ stdout' = Append(stdout, TextLine("REPORT.md not found"))
            /\ Exit(1)
    /\ UNCHANGED <<script, convVars, adapterVars, unhandled>>

\* lines 29-30: open and read; the read may raise (inside the try)
ReadInput ==
    /\ script = "convert" /\ pc = "read"
    /\ \/ \E content \in Inputs :
            /\ md_content' = content
            /\ pc' = "build"
       \/ /\ pc' = "except"
          /\ UNCHANGED md_content
    /\ UNCHANGED <<script, installed, inputExists, sections, i, doc, outFile,
                   adapterVars, stdout, exitStatus, unhandled>>

\* lines 33-43: Document(), the split into sections, the title heading
BeginDocument ==
    /\ script = "convert" /\ pc = "build"
    /\ sections' = Split(md_content, SectionDelim)
    /\ doc' = <<Heading(TitleOf(sections'[1]), 0)>>
    /\ i' = 1
    /\ pc' = "sections"
    /\ UNCHANGED <<script, installed, inputExists, md_content, outFile,
                   adapterVars, stdout, exitStatus, unhandled>>

\* lines 46-88: one iteration of for i in range(1, len(sections))
ProcessSection ==
    /\ script = "convert" /\ pc = "sections"
    /\ i < Len(sections)
    /\ doc' = doc \o SectionNodes(sections[i + 1])
    /\ i' = i + 1
    /\ UNCHANGED <<script, pc, installed, inputExists, md_content, sections,
                   outFile, adapterVars, stdout, exitStatus, unhandled>>

\* line 91: doc.save('REPORT.docx') writes the file in place; when it raises,
\* the file is either not yet opened or left partly written
SaveDocument ==
    /\ script = "convert" /\ pc = "sections"
    /\ i >= Len(sections)
    /\ \/ /\ outFile' = "written"
          /\ pc' = "report"
       \/ /\ outFile' \in {"untouched", "partial"}
          /\ pc' = "except"
    /\ UNCHANGED <<script, installed, inputExists, md_content, sections, i, doc,
                   adapterVars, stdout, exitStatus, unhandled>>

\* line 92, then main() returns
PrintSuccess ==
    /\ script = "convert" /\ pc = "report"
    /\ stdout' = Append(stdout, TextLine("Successfully converted"))
    /\ Exit(0)
    /\ UNCHANGED <<script, convVars, adapterVars, unhandled>>

\* lines 94-96: except Exception: print, exit(1)
HandleError ==
    /\ script = "convert" /\ pc = "except"
    /\ stdout' = Append(stdout, TextLine("Error converting the report"))
    /\ Exit(1)
    /\ UNCHANGED <<script, convVars, adapterVars, unhandled>>

(***************************************************************************)
(* The adapters: argument parsing                                          *)
(***************************************************************************)
Digits == <<"0", "1", "2", "3", "4", "5", "6", "7", "8", "9">>
DigitValue(c) == (CHOOSE k \in 1..10 : Digits[k] = c) - 1
IsDigit(c) == \E k \in 1..10 : Digits[k] = c

RECURSIVE DigitsValue(_)
DigitsValue(s) ==
    IF s = <<>> THEN 0
    ELSE 10 * DigitsValue(SubSeq(s, 1, Len(s) - 1)) + DigitValue(s[Len(s)])

Unsigned(s) == IF s # <<>> /\ Head(s) \in {"-", "+"} THEN Tail(s) ELSE s

\* int(text) accepts an optional sign and decimal digits; anything else
\* raises ValueError
IsIntLiteral(s) == Unsigned(s) # <<>> /\ \A k \in 1..Len(Unsigned(s)) : IsDigit(Unsigned(s)[k])
IntOf(s) == IF s # <<>> /\ Head(s) = "-" THEN 0 - DigitsValue(Unsigned(s))
            ELSE DigitsValue(Unsigned(s))

\* str.split() with no argument: the runs of non-whitespace characters
RECURSIVE Words(_)
Words(s) ==
    LET t == LStrip(s)
        ends == {k \in 1..Len(t) : IsSpace(t[k])}
        e == IF ends = {} THEN Len(t) + 1
             ELSE CHOOSE k \in ends : \A m \in ends : k <= m
    IN  IF t = <<>> THEN <<>>
        ELSE <<SubSeq(t, 1, e - 1)>> \o Words(SubSeq(t, e, Len(t)))

ChunkSize == 5

\* the slices one keyword short: [kw[i:i+4] for i in range(0, len(kw), 5)]
RECURSIVE ChunksOneShort(_)
ChunksOneShort(kws) ==
    IF kws = <<>> THEN <<>>
    ELSE IF Len(kws) <= ChunkSize
    THEN <<SubSeq(kws, 1, IF Len(kws) < ChunkSize THEN Len(kws) ELSE ChunkSize - 1)>>
    ELSE <<SubSeq(kws, 1, ChunkSize - 1)>>
         \o ChunksOneShort(SubSeq(kws, ChunkSize + 1, Len(kws)))

\* [kw[i:i+5] for i in range(0, len(kw), 5)]
RECURSIVE Chunks(_)
Chunks(kws) ==
    IF kws = <<>> THEN <<>>
    ELSE IF Len(kws) <= ChunkSize THEN <<kws>>
    ELSE <<SubSeq(kws, 1, ChunkSize)>> \o Chunks(SubSeq(kws, ChunkSize + 1, Len(kws)))

MaxKeywords == 6   \* keywords of a comma-separated keyword argument
Letters == <<"a", "b", "c", "d", "e", "f", "g", "h", "j", "k", "m", "n">>
KeywordArg(n) == Join([k \in 1..n |-> <<Letters[k]>>], <<",">>)
KeywordArgs == {KeywordArg(n) : n \in 0..MaxKeywords}

ArgTails(first, second, third) ==
    {<<>>} \cup {<<a>> : a \in first}
    \cup {<<a, b>> : a \in first, b \in second}
    \cup {<<a, b, c>> : a \in first, b \in second, c \in third}

YahooCommands == {"stock", "market", "sectors", "search", "quote"}
YahooArgvs ==
    {<<>>} \cup
    {<<c>> \o t : c \in YahooCommands,
                  t \in ArgTails({<<"A">>, <<"A", SP, "B">>, <<SP>>},
                                 {<<"1">>, <<"2">>, <<"-", "1">>, <<"1", "m", "o">>},
                                 {<<"x">>})}

TrendsCommands ==
    {"interest", "related_queries", "related_topics", "trending", "industry", "news"}
TrendsArgvs ==
    {<<>>} \cup
    {<<c>> \o t : c \in TrendsCommands,
                  t \in ArgTails(KeywordArgs, {<<"p">>}, {<<"G", "B">>})}

Success == [status |-> "success", message |-> ""]
Failure(m) == [status |-> "error", message |-> m]
ExceptionText == "exception text"

\* print(json.dumps(...)); return  -- the early returns of main()
PrintAndReturn(r) ==
    /\ stdout' = Append(stdout, JsonLine(r))
    /\ Exit(0)

(***************************************************************************)
(* scripts/yahoo_finance.py                                                *)
(***************************************************************************)
Indices == <<"^GSPC", "^DJI", "^IXIC", "^FTSE", "^GDAXI", "^FCHI", "^N225">>
SectorEtfs ==
    <<"XLK", "XLV", "XLF", "XLE", "XLY", "XLP", "XLI", "XLB", "XLU", "XLRE", "XLC">>

\* lines 172-198: main() up to the call of the command's function
YfMain ==
    /\ script = "yahoo_finance" /\ pc = "yf_main"
    /\ IF Len(argv) < 1
       THEN /\ PrintAndReturn(Failure("No command specified"))
            /\ UNCHANGED <<result, work, limit, unhandled>>
       ELSE IF argv[1] = "stock"
       THEN IF Len(argv) < 2
            THEN /\ PrintAndReturn(Failure("No symbol specified"))
                 /\ UNCHANGED <<result, work, limit, unhandled>>
            ELSE /\ pc' = "yf_stock"
                 /\ UNCHANGED <<result, work, limit, stdout, exitStatus, unhandled>>
       ELSE IF argv[1] = "market"
       THEN /\ pc' = "yf_market"
            /\ work' = Indices
            /\ UNCHANGED <<result, limit, stdout, exitStatus, unhandled>>
       ELSE IF argv[1] = "sectors"
       THEN /\ pc' = "yf_sectors"
            /\ work' = SectorEtfs
            /\ UNCHANGED <<result, limit, stdout, exitStatus, unhandled>>
       ELSE IF argv[1] = "search"
       THEN IF Len(argv) < 2
            THEN /\ PrintAndReturn(Failure("No query specified"))
                 /\ UNCHANGED <<result, work, limit, unhandled>>
            ELSE IF Len(argv) > 2 /\ ~IsIntLiteral(argv[3])
            THEN \* int(sys.argv[3]) raises ValueError outside any try
                 /\ Exit(1)
                 /\ unhandled' = TRUE
                 /\ UNCHANGED <<result, work, limit, stdout>>
            ELSE /\ limit' = IF Len(argv) > 2 THEN IntOf(argv[3]) ELSE 10
                 /\ pc' = "yf_search_begin"
                 /\ UNCHANGED <<result, work, stdout, exitStatus, unhandled>>
       ELSE /\ result' = Failure("Unknown command")
            /\ pc' = "print"
            /\ UNCHANGED <<work, limit, stdout, exitStatus, unhandled>>
    /\ UNCHANGED <<script, convVars, argv, found, raised, payloadBuilt, requests>>

\* lines 9-44: get_stock_data; every provider call is inside the try
YfStockData ==
    /\ script = "yahoo_finance" /\ pc = "yf_stock"
    /\ \/ /\ result' = Success
          /\ UNCHANGED raised
       \/ /\ result' = Failure(ExceptionText)
          /\ raised' = TRUE
    /\ pc' = "print"
    /\ UNCHANGED <<script, convVars, argv, work, found, limit, payloadBuilt,
                   requests, stdout, exitStatus, unhandled>>

\* lines 53-81: one index of get_market_summary; a raising lookup ends the
\* function in its except clause
YfMarketIndex ==
    /\ script = "yahoo_finance" /\ pc = "yf_market"
    /\ work # <<>>
    /\ \/ /\ work' = Tail(work)
          /\ IF Tail(work) = <<>>
             THEN /\ result' = Success
                  /\ pc' = "print"
             ELSE UNCHANGED <<result, pc>>
          /\ UNCHANGED raised
       \/ /\ result' = Failure(ExceptionText)
          /\ raised' = TRUE
          /\ pc' = "print"
          /\ UNCHANGED work
    /\ UNCHANGED <<script, convVars, argv, found, limit, payloadBuilt, requests,
                   stdout, exitStatus, unhandled>>

\* lines 104-135: one sector ETF of get_industry_performance
YfSectorEtf ==
    /\ script = "yahoo_finance" /\ pc = "yf_sectors"
    /\ work # <<>>
    /\ \/ /\ work' = Tail(work)
          /\ IF Tail(work) = <<>>
             THEN /\ result' = Success
                  /\ pc' = "print"
             ELSE UNCHANGED <<result, pc>>
          /\ UNCHANGED raised
       \/ /\ result' = Failure(ExceptionText)
          /\ raised' = TRUE
          /\ pc' = "print"
          /\ UNCHANGED work
    /\ UNCHANGED <<script, convVars, argv, found, limit, payloadBuilt, requests,
                   stdout, exitStatus, unhandled>>

\* lines 139-141: yf.Tickers(query), inside the outer try
YfSearchBegin ==
    /\ script = "yahoo_finance" /\ pc = "yf_search_begin"
    /\ \/ /\ work' = Words(argv[2])
          /\ found' = 0
          /\ pc' = "yf_search"
          /\ UNCHANGED <<result, raised>>
       \/ /\ result' = Failure(ExceptionText)
          /\ raised' = TRUE
          /\ pc' = "print"
          /\ UNCHANGED <<work, found>>
    /\ UNCHANGED <<script, convVars, argv, limit, payloadBuilt, requests, stdout,
                   exitStatus, unhandled>>

\* lines 145-160: one ticker of the loop; a raising lookup is skipped by the
\* bare except: continue
YfSearchTicker ==
    /\ script = "yahoo_finance" /\ pc = "yf_search"
    /\ work # <<>>
    /\ \/ \* the ticker has a shortName: appended, and the loop breaks at limit
          /\ found' = found + 1
          /\ work' = IF found + 1 >= limit THEN <<>> ELSE Tail(work)
          /\ UNCHANGED raised
       \/ \* no shortName in info
          /\ work' = Tail(work)
          /\ UNCHANGED <<found, raised>>
       \/ \* the lookup raises
          /\ work' = Tail(work)
          /\ raised' = TRUE
          /\ UNCHANGED found
    /\ UNCHANGED <<script, pc, convVars, argv, result, limit, payloadBuilt,
                   requests, stdout, exitStatus, unhandled>>

\* lines 162-165
YfSearchReturn ==
    /\ script = "yahoo_finance" /\ pc = "yf_search"
    /\ work = <<>>
    /\ result' = Success
    /\ pc' = "print"
    /\ UNCHANGED <<script, convVars, argv, work, found, limit, raised,
                   payloadBuilt, requests, stdout, exitStatus, unhandled>>

\* line 200: print(json.dumps(result))
YfPrintResult ==
    /\ script = "yahoo_finance" /\ pc = "print"
    /\ PrintAndReturn(result)
    /\ UNCHANGED <<script, convVars, adapterVars, unhandled>>

(***************************************************************************)
(* scripts/google_trends.py                                                *)
(***************************************************************************)
Call(name, kw_list) == [call |-> name, kw_list |-> kw_list]
NoDataText == "No data returned for the query"

\* line 10: the module-level client shared by every function
GtCreateClient ==
    /\ script = "google_trends" /\ pc = "gt_import"
    /\ payloadBuilt' = FALSE
    /\ requests' = <<>>
    /\ pc' = "gt_main"
    /\ UNCHANGED <<script, convVars, argv, result, work, found, limit, raised,
                   stdout, exitStatus, unhandled>>

\* lines 207-247: main() up to the call of the command's function
GtMain ==
    /\ script = "google_trends" /\ pc = "gt_main"
    /\ IF Len(argv) < 1
       THEN /\ PrintAndReturn(Failure("No command specified"))
            /\ UNCHANGED <<result, work>>
       ELSE IF argv[1] \in {"interest", "related_queries", "related_topics", "industry"}
               /\ Len(argv) < 2
       THEN /\ PrintAndReturn(Failure("No keywords specified"))
            /\ UNCHANGED <<result, work>>
       ELSE IF argv[1] = "interest"
       THEN /\ work' = <<Split(argv[2], <<",">>)>>
            /\ pc' = "gt_interest"
            /\ UNCHANGED <<result, stdout, exitStatus>>
       ELSE IF argv[1] = "related_queries"
       THEN /\ work' = <<<<argv[2]>>>>
            /\ pc' = "gt_related_queries"
            /\ UNCHANGED <<result, stdout, exitStatus>>
       ELSE IF argv[1] = "related_topics"
       THEN /\ work' = <<<<argv[2]>>>>
            /\ pc' = "gt_related_topics"
            /\ UNCHANGED <<result, stdout, exitStatus>>
       ELSE IF argv[1] = "trending"
       THEN /\ pc' = "gt_trending"
            /\ UNCHANGED <<result, work, stdout, exitStatus>>
       ELSE IF argv[1] = "industry"
       THEN /\ work' = Chunks(Split(argv[2], <<",">>))
            /\ pc' = "gt_industry"
            /\ UNCHANGED <<result, stdout, exitStatus>>
       ELSE /\ result' = Failure("Unknown command")
            /\ pc' = "print"
            /\ UNCHANGED <<work, stdout, exitStatus>>
    /\ UNCHANGED <<script, convVars, argv, found, limit, raised, payloadBuilt,
                   requests, unhandled>>

\* build_payload(kw_list) then one fetch, both inside the function's try;
\* the fetch returns data, returns nothing, or either call raises
BuildThenFetch(fetch) ==
    /\ \/ /\ requests' = Append(requests, Call("build_payload", work[1]))
          /\ payloadBuilt' = payloadBuilt
          /\ result' = Failure(ExceptionText)
          /\ raised' = TRUE
       \/ /\ requests' = requests \o <<Call("build_payload", work[1]), Call(fetch, <<>>)>>
          /\ payloadBuilt' = TRUE
          /\ \/ /\ result' = Failure(ExceptionText)
                /\ raised' = TRUE
             \/ /\ result' = Failure(NoDataText)
                /\ UNCHANGED raised
             \/ /\ result' = Success
                /\ UNCHANGED raised
    /\ pc' = "print"
    /\ UNCHANGED <<script, convVars, argv, work, found, limit, stdout, exitStatus,
                   unhandled>>

\* lines 12-47
GtInterestOverTime ==
    /\ script = "google_trends" /\ pc = "gt_interest"
    /\ BuildThenFetch("interest_over_time")

\* lines 49-84
GtRelatedQueries ==
    /\ script = "google_trends" /\ pc = "gt_related_queries"
    /\ BuildThenFetch("related_queries")

\* lines 86-121
GtRelatedTopics ==
    /\ script = "google_trends" /\ pc = "gt_related_topics"
    /\ BuildThenFetch("related_topics")

\* lines 123-153: trending_searches needs no payload
GtTrendingSearches ==
    /\ script = "google_trends" /\ pc = "gt_trending"
    /\ requests' = Append(requests, Call("trending_searches", <<>>))
    /\ \/ /\ result' = Failure(ExceptionText)
          /\ raised' = TRUE
       \/ /\ result' = Failure(NoDataText)
          /\ UNCHANGED raised
       \/ /\ result' = Success
          /\ UNCHANGED raised
    /\ pc' = "print"
    /\ UNCHANGED <<script, convVars, argv, work, found, limit, payloadBuilt,
                   stdout, exitStatus, unhandled>>

\* lines 161-187: one chunk of get_industry_interest
GtIndustryChunk ==
    /\ script = "google_trends" /\ pc = "gt_industry"
    /\ work # <<>>
    /\ \/ /\ requests' = Append(requests, Call("build_payload", work[1]))
          /\ result' = Failure(ExceptionText)
          /\ raised' = TRUE
          /\ pc' = "print"
          /\ UNCHANGED <<work, found, payloadBuilt>>
       \/ /\ requests' = requests \o <<Call("build_payload", work[1]),
                                       Call("interest_over_time", <<>>)>>
          /\ payloadBuilt' = TRUE
          /\ \/ /\ result' = Failure(ExceptionText)
                /\ raised' = TRUE
                /\ pc' = "print"
                /\ UNCHANGED <<work, found>>
             \/ \* interest_df.empty: nothing is added for this chunk
                /\ work' = Tail(work)
                /\ UNCHANGED <<result, raised, pc, found>>
             \/ /\ work' = Tail(work)
                /\ found' = found + 1
                /\ UNCHANGED <<result, raised, pc>>
    /\ UNCHANGED <<script, convVars, argv, limit, stdout, exitStatus, unhandled>>

\* lines 189-200
GtIndustryReturn ==
    /\ script = "google_trends" /\ pc = "gt_industry"
    /\ work = <<>>
    /\ result' = IF found > 0 THEN Success ELSE Failure(NoDataText)
    /\ pc' = "print"
    /\ UNCHANGED <<script, convVars, argv, work, found, limit, raised,
                   payloadBuilt, requests, stdout, exitStatus, unhandled>>

\* line 249: print(json.dumps(result))
GtPrintResult ==
    /\ script = "google_trends" /\ pc = "print"
    /\ PrintAndReturn(result)
    /\ UNCHANGED <<script, convVars, adapterVars, unhandled>>

(***************************************************************************)
(* One invocation of one of the three scripts                              *)
(***************************************************************************)
ConvertInit ==
    /\ script = "convert"
    /\ pc = "import"
    /\ installed \in SUBSET Libs
    /\ inputExists \in BOOLEAN
    /\ argv = <<>>

YahooInit ==
    /\ script = "yahoo_finance"
    /\ pc = "yf_main"
    /\ installed = {}
    /\ inputExists = FALSE
    /\ argv \in YahooArgvs

TrendsInit ==
    /\ script = "google_trends"
    /\ pc = "gt_import"
    /\ installed = {}
    /\ inputExists = FALSE
    /\ argv \in TrendsArgvs

Init ==
    /\ (ConvertInit \/ YahooInit \/ TrendsInit)
    /\ md_content = <<>>
    /\ sections = <<>>
    /\ i = 0
    /\ doc = <<>>
    /\ outFile = "untouched"
    /\ result = NoResult
    /\ work = <<>>
    /\ found = 0
    /\ limit = 0
    /\ raised = FALSE
    /\ payloadBuilt = FALSE
    /\ requests = <<>>
    /\ stdout = <<>>
    /\ exitStatus = -1
    /\ unhandled = FALSE

Next ==
    \/ ImportModules
    \/ CheckDocx
    \/ CheckInput
    \/ ReadInput
    \/ BeginDocument
    \/ ProcessSection
    \/ SaveDocument
    \/ PrintSuccess
    \/ HandleError
    \/ YfMain
    \/ YfStockData
    \/ YfMarketIndex
    \/ YfSectorEtf
    \/ YfSearchBegin
    \/ YfSearchTicker
    \/ YfSearchReturn
    \/ YfPrintResult
    \/ GtCreateClient
    \/ GtMain
    \/ GtInterestOverTime
    \/ GtRelatedQueries
    \/ GtRelatedTopics
    \/ GtTrendingSearches
    \/ GtIndustryChunk
    \/ GtIndustryReturn
    \/ GtPrintResult

Spec == Init /\ [][Next]_vars

(***************************************************************************)
(* Properties of the converter                                             *)
(***************************************************************************)
Converting == script = "convert" /\ sections # <<>>
ParseDone == Converting /\ i >= Len(sections)

NodesWhere(Test(_)) == SelectSeq(doc, Test)
IsLevel1(n) == n.node = "heading" /\ n.level = 1
IsLevel2(n) == n.node = "heading" /\ n.level = 2
IsPlain(n) == n.node = "paragraph" /\ n.style = "Normal"
IsListItem(n) == n.node = "paragraph" /\ n.style = "List Bullet"
Texts(nodes) == [k \in 1..Len(nodes) |-> nodes[k].text]

\* the text of s up to its first newline
FirstLine(s) ==
    LET k == Find(s, <<NL>>) IN IF k = 0 THEN s ELSE SubSeq(s, 1, k - 1)

\* number of positions of s at which d occurs
CountOcc(s, d) ==
    Cardinality({k \in 1..(Len(s) - Len(d) + 1) : SubSeq(s, k, k + Len(d) - 1) = d})

\* the level-3 heading lines of a Section: the lines after its title line
\* that start with "### "
Level3HeadingLines(section) ==
    SelectSeq(Tail(SectionLines(section)),
              LAMBDA line : StartsWith(line, <<HASH, HASH, HASH, SP>>))

RECURSIVE SumLevel3(_, _)
SumLevel3(ss, upto) ==
    IF upto < 2 THEN 0
    ELSE Len(Level3HeadingLines(ss[upto])) + SumLevel3(ss, upto - 1)

\* C1: after each Section is processed, the document holds exactly one
\* level-2 heading node per level-3 heading line of the Sections processed
\* so far, wherever the heading line sits in its Section.
C1_OneHeadingPerSubsection ==
    Converting => Len(NodesWhere(IsLevel2)) = SumLevel3(sections, i)

\* C2: a Block whose trimmed text starts with "- " is never emitted as a
\* plain paragraph node, whether it sits directly under a Section or inside
\* a Subsection.
C2_BulletBlocksAreLists ==
    \A k \in 1..Len(doc) : IsPlain(doc[k]) => ~StartsWith(doc[k].text, BulletMark)

\* the item texts the bullet rule prescribes for one trimmed block: split on
\* "\n- ", strip "- " from the first fragment only, trim, discard empties
PrescribedItems(block) ==
    LET frags == Split(block, BulletDelim)
        first == IF StartsWith(frags[1], BulletMark)
                 THEN SubSeq(frags[1], 3, Len(frags[1])) ELSE frags[1]
        cut == [k \in 1..Len(frags) |-> Strip(IF k = 1 THEN first ELSE frags[k])]
    IN  SelectSeq(cut, LAMBDA t : t # <<>>)

RECURSIVE PrescribedOfParas(_)
PrescribedOfParas(paras) ==
    IF paras = <<>> THEN <<>>
    ELSE (IF StartsWith(Strip(Head(paras)), BulletMark)
          THEN PrescribedItems(Strip(Head(paras))) ELSE <<>>)
         \o PrescribedOfParas(Tail(paras))

RECURSIVE PrescribedOfSubsections(_)
PrescribedOfSubsections(subs) ==
    IF subs = <<>> THEN <<>>
    ELSE PrescribedOfParas(Split(SubsectionContent(Head(subs)), BlankLine))
         \o PrescribedOfSubsections(Tail(subs))

RECURSIVE PrescribedOfSections(_, _)
PrescribedOfSections(ss, upto) ==
    IF upto < 2 THEN <<>>
    ELSE PrescribedOfSections(ss, upto - 1)
         \o PrescribedOfSubsections(Tail(Subsections(ss[upto])))

\* C3: the list-item texts in the document are, in order, the prescribed
\* items of the bullet Blocks of the Subsections processed so far; so no
\* list item is empty and only a first fragment loses a leading "- ".
C3_ListItemsAsPrescribed ==
    Converting => Texts(NodesWhere(IsListItem)) = PrescribedOfSections(sections, i)

\* the fragment of the text before the first "\n## "
TitleChunk(md) ==
    LET k == Find(md, SectionDelim) IN IF k = 0 THEN md ELSE SubSeq(md, 1, k - 1)

\* the chunk trimmed, with one leading "# " removed
SingleMarkerStripped(chunk) ==
    LET t == Strip(chunk)
    IN  IF StartsWith(t, TitleMark) THEN SubSeq(t, 3, Len(t)) ELSE t

\* C4: the level-0 heading is the trimmed title chunk with only a single
\* leading "# " removed; any other "# " in the chunk is preserved.
C4_TitleLosesOneMarker ==
    Converting => doc[1] = Heading(SingleMarkerStripped(TitleChunk(md_content)), 0)

\* C5 as stated: with n delimiters the parse ends with exactly n level-1
\* headings, the k-th titled with the first line of the k-th fragment after
\* the title.
C5_HeadingIsFragmentFirstLine ==
    ParseDone =>
        LET heads == NodesWhere(IsLevel1)
            frags == Split(md_content, SectionDelim)
        IN  /\ Len(heads) = CountOcc(md_content, SectionDelim)
            /\ \A k \in 1..Len(heads) : heads[k].text = FirstLine(frags[k + 1])

\* C5 as amended: with n delimiters the parse ends with exactly n level-1
\* headings, in source order, the k-th titled with the first line of the
\* k-th fragment after the title once that fragment is trimmed of
\* surrounding whitespace.
C5_HeadingIsTrimmedFragmentFirstLine ==
    ParseDone =>
        LET heads == NodesWhere(IsLevel1)
            frags == Split(md_content, SectionDelim)
        IN  /\ Len(heads) = CountOcc(md_content, SectionDelim)
            /\ Len(frags) = Len(heads) + 1
            /\ \A k \in 1..Len(heads) : heads[k].text = FirstLine(Strip(frags[k + 1]))

\* "# a", "## a", "## b" has been parsed into the headings a then b
C5_Witness ==
    /\ ParseDone
    /\ md_content = <<HASH, SP, "a", NL, HASH, HASH, SP, "a", NL, HASH, HASH, SP, "b">>
    /\ Texts(NodesWhere(IsLevel1)) = << <<"a">>, <<"b">> >>

\* C6: the document never holds a plain paragraph node with empty text.
C6_NoEmptyParagraph ==
    \A k \in 1..Len(doc) : IsPlain(doc[k]) => doc[k].text # <<>>

\* two real paragraphs separated by four newlines, directly under a Section
\* and inside a Subsection, have been parsed into two paragraphs each time
C6_Witness ==
    /\ ParseDone
    /\ \E p \in {SectionPrefix, SubsectionPrefix} :
          md_content = p \o <<"a", NL, NL, NL, NL, "a">>
    /\ LET tail == SubSeq(doc, Len(doc) - 1, Len(doc))
       IN  tail = <<Paragraph(<<"a">>), Paragraph(<<"a">>)>>
    /\ Find(md_content, <<NL, NL, NL, NL>>) > 0

\* C7: a converter run that exits 0 has written the whole of REPORT.docx,
\* and a run that exits non-zero has left REPORT.docx neither created nor
\* modified: the full document or nothing.
C7_AllOrNothing ==
    (script = "convert" /\ pc = "exited") =>
        IF exitStatus = 0 THEN outFile = "written" ELSE outFile = "untouched"

(***************************************************************************)
(* Properties of the adapters                                              *)
(***************************************************************************)
AdapterExited == script \in {"yahoo_finance", "google_trends"} /\ pc = "exited"

\* C8: whatever the argument vector, an adapter invocation ends having
\* printed exactly one line, a JSON object with status "success" or "error"
\* (and a message when "error"), and no exception leaves main uncaught.
C8_OneJsonLine ==
    AdapterExited =>
        /\ ~unhandled
        /\ Len(stdout) = 1
        /\ stdout[1].status \in {"success", "error"}
        /\ stdout[1].status = "error" => stdout[1].message # ""

\* C9: when a provider call of the invocation raised, the adapter prints
\* one JSON object with status "error" and a non-empty message and exits 0.
C9_RaisedFetchIsReported ==
    (AdapterExited /\ raised) =>
        /\ Len(stdout) = 1
        /\ stdout[1].status = "error"
        /\ stdout[1].message # ""
        /\ exitStatus = 0

\* C10: a converter run with a supporting library missing ends with exit
\* status 1 having printed the install instructions, handled by the script
\* itself, with REPORT.md unread and REPORT.docx untouched.
C10_MissingLibraryReported ==
    (script = "convert" /\ pc = "exited" /\ ~(Libs \subseteq installed)) =>
        /\ exitStatus = 1
        /\ ~unhandled
        /\ stdout = <<TextLine("install python-docx")>>
        /\ md_content = <<>> /\ sections = <<>>
        /\ outFile = "untouched"

(***************************************************************************)
(* Properties of the provider calls of google_trends                       *)
(***************************************************************************)
IsBuild(r) == r.call = "build_payload"
IsPayloadFetch(r) ==
    r.call \in {"interest_over_time", "related_queries", "related_topics"}
Builds == SelectSeq(requests, IsBuild)

\* the invocation runs the industry command on the keyword list argv[2].split(',')
IndustryRun ==
    script = "google_trends" /\ Len(argv) >= 2 /\ argv[1] = "industry"
    /\ pc \in {"gt_industry", "print", "exited"}
IndustryKeywords == Split(argv[2], <<",">>)
IndustryReturned == IndustryRun /\ pc \in {"print", "exited"}

CeilDiv5(n) == (n + 4) \div 5
MinOf(a, b) == IF a < b THEN a ELSE b

\* keywords 5(k-1)+1 .. min(5k, n) of the list
NthFive(kws, k) == SubSeq(kws, 5 * (k - 1) + 1, MinOf(5 * k, Len(kws)))

RECURSIVE ConcatKeywords(_)
ConcatKeywords(bs) ==
    IF bs = <<>> THEN <<>> ELSE Head(bs).kw_list \o ConcatKeywords(Tail(bs))

\* every build_payload carries 1 to 5 keywords, the k-th one the k-th five
\* keywords of the list
BuildsAreLeadingChunks ==
    /\ Len(Builds) <= CeilDiv5(Len(IndustryKeywords))
    /\ \A k \in 1..Len(Builds) :
          /\ Builds[k].kw_list = NthFive(IndustryKeywords, k)
          /\ Len(Builds[k].kw_list) \in 1..5

\* a payload fetch comes only right after a build_payload
FetchFollowsBuild ==
    \A k \in 1..Len(requests) :
        IsPayloadFetch(requests[k]) => (k > 1 /\ IsBuild(requests[k - 1]))

\* a build_payload that is not the last call is followed by one
\* interest_over_time fetch
BuildThenOneFetch ==
    \A k \in 1..Len(requests) :
        (IsBuild(requests[k]) /\ k < Len(requests)) =>
            requests[k + 1].call = "interest_over_time"

====
